---------------------------- MODULE Spec2Model ----------------------------
(***************************************************************************)
(* Model of app/ags.py: the validate, is_valid and convert operations of   *)
(* the AGS validator, their classification of the external tool's outcome, *)
(* the report template, and the encoding-error locator line_of_error.      *)
(*                                                                         *)
(* Text is modelled as a sequence of one-character strings, so that        *)
(* startswith, the substring test and the two regular expressions are      *)
(* computed character by character as Python computes them.  An optional   *)
(* value (Optional[...] in the source) is None or Some(v).                 *)
(*                                                                         *)
(* The input file of a request is assumed to exist for the whole request   *)
(* (filename.stat() and open(filename) succeed), and the parent of         *)
(* results_dir is assumed to exist.                                        *)
(***************************************************************************)
EXTENDS Naturals, Sequences, FiniteSets, TLC

\* ------------------------------------------------------------------ bounds

\* Number of request slots (requests that may be in flight together).
NReq == 2
\* Number of distinct results directories a convert request may be given.
NDirs == 2
\* Longest input file, in bytes, that the locator specification enumerates.
MaxFileLen == 4

\* subprocess.run(..., timeout=30)
TIMEOUT == 30

\* ------------------------------------------------------------ Optional[T]

None == << >>
Some(v) == << v >>
Get(o) == o[1]

\* ------------------------------------------------------------------- text

Digit == {"0", "1", "2", "3", "4", "5", "6", "7", "8", "9"}
LF == "\n"
CR == "\r"

\* s.startswith(p)
StartsWith(s, p) ==
    /\ Len(s) >= Len(p)
    /\ SubSeq(s, 1, Len(p)) = p

\* s[i:] starts with p  (i is a 1-based index)
StartsWithAt(s, i, p) ==
    /\ i + Len(p) - 1 <= Len(s)
    /\ SubSeq(s, i, i + Len(p) - 1) = p

\* p in s
Contains(s, p) == \E i \in 1..(Len(s) + 1) : StartsWithAt(s, i, p)

\* Number of consecutive digits of s from index i on: what a greedy \d+ takes.
RECURSIVE DigitRun(_, _)
DigitRun(s, i) ==
    IF i <= Len(s) /\ s[i] \in Digit THEN 1 + DigitRun(s, i + 1) ELSE 0

\* s.count(c)
Count(s, c) == Cardinality({i \in 1..Len(s) : s[i] = c})

\* s.rfind(c) as a 1-based index, 0 when c does not occur
RFind(s, c) ==
    IF \E i \in 1..Len(s) : s[i] = c
    THEN CHOOSE i \in 1..Len(s) : s[i] = c /\ \A j \in (i + 1)..Len(s) : s[j] # c
    ELSE 0

\* s.split(c)[-1]: the text after the last c
AfterLast(s, c) == SubSeq(s, RFind(s, c) + 1, Len(s))

DigitValue(c) == CHOOSE n \in 0..9 : <<"0", "1", "2", "3", "4", "5", "6", "7", "8", "9">>[n + 1] = c
DigitChar(n) == <<"0", "1", "2", "3", "4", "5", "6", "7", "8", "9">>[n + 1]

\* int(ds) for a non-empty string of digits
RECURSIVE ParseInt(_)
ParseInt(ds) ==
    IF Len(ds) = 0 THEN 0
    ELSE 10 * ParseInt(SubSeq(ds, 1, Len(ds) - 1)) + DigitValue(ds[Len(ds)])

\* str(n) for n >= 0, as the f-string renders an int
RECURSIVE IntToStr(_)
IntToStr(n) ==
    IF n < 10 THEN << DigitChar(n) >>
    ELSE IntToStr(n \div 10) \o << DigitChar(n % 10) >>

\* ------------------------------------------------------ literals of ags.py

ERROR_PREFIX == <<"E", "R", "R", "O", "R", ":", " ">>
UNICODE_MARKER == <<"U", "n", "i", "c", "o", "d", "e", "D", "e", "c", "o", "d", "e", "E", "r", "r", "o", "r", ":">>
IN_POSITION == <<"i", "n", " ", "p", "o", "s", "i", "t", "i", "o", "n", " ">>
ERRORS_FOUND == <<" ", "e", "r", "r", "o", "r", "(", "s", ")", " ", "f", "o", "u", "n", "d", " ", "i", "n", " ", "f", "i", "l", "e">>
ALL_CHECKS_PASSED == <<"A", "l", "l", " ", "c", "h", "e", "c", "k", "s", " ", "p", "a", "s", "s", "e", "d", "!">>
SUCCESS_PREFIX == <<"S", "U", "C", "C", "E", "S", "S", ":", " ">>
CONVERTED_TO == <<" ", "c", "o", "n", "v", "e", "r", "t", "e", "d", " ", "t", "o", " ">>
EXT_AGS == <<".", "a", "g", "s">>
EXT_XLSX == <<".", "x", "l", "s", "x">>

\* ------------------------------------------------------- report formatting

\* '{filesize:0.0f}' of st_size / 1024: the nearest whole number of kB, a tie
\* going to the even one (the division by 1024 is exact in binary).
FormatKB(st_size) ==
    LET q == st_size \div 1024
        r == st_size % 1024
    IN  IntToStr(IF r > 512 \/ (r = 512 /\ q % 2 = 1) THEN q + 1 ELSE q)

\* Variant: the template without the file name.
MutTemplateNoName(name, st_size, time_utc, msg) ==
    <<"F", "i", "l", "e", " ", "N", "a", "m", "e", ":", " ", "\t", " ">> \o <<"\n", "F", "i", "l", "e", " ", "S", "i", "z", "e", ":", " ", "\t", " ">> \o FormatKB(st_size) \o <<" ", "k", "B", "\n", "T", "i", "m", "e", " ", "(", "U", "T", "C", ")", ":", " ", "\t", " ">>
        \o time_utc \o <<"\n", "\n">> \o msg

\* RESPONSE_TEMPLATE.format(filename=..., filesize=..., time_utc=..., message=...)
RESPONSE_TEMPLATE(name, st_size, time_utc, msg) ==
    <<"F", "i", "l", "e", " ", "N", "a", "m", "e", ":", " ", "\t", " ">> \o name \o <<"\n", "F", "i", "l", "e", " ", "S", "i", "z", "e", ":", " ", "\t", " ">> \o FormatKB(st_size)
        \o <<" ", "k", "B", "\n", "T", "i", "m", "e", " ", "(", "U", "T", "C", ")", ":", " ", "\t", " ">> \o time_utc \o <<"\n", "\n">> \o msg

\* ------------------------------------------------- encoding-error locator

\* open(filename, encoding='ISO-8859-1') decodes each byte to one character
\* and, in text mode with the default newline=None, turns every CR LF and
\* every lone CR into LF before read() counts characters.
RECURSIVE UniversalNewlines(_)
UniversalNewlines(bytes) ==
    IF Len(bytes) = 0 THEN << >>
    ELSE IF bytes[1] = CR
         THEN IF Len(bytes) >= 2 /\ bytes[2] = LF
              THEN << LF >> \o UniversalNewlines(SubSeq(bytes, 3, Len(bytes)))
              ELSE << LF >> \o UniversalNewlines(SubSeq(bytes, 2, Len(bytes)))
         ELSE << bytes[1] >> \o UniversalNewlines(SubSeq(bytes, 2, Len(bytes)))

\* f.read(n) at character position pos (0-based) of the decoded text
ReadChars(text, pos, n) ==
    SubSeq(text, pos + 1, IF pos + n <= Len(text) THEN pos + n ELSE Len(text))

\* line_of_error(filename, char_no) -> (char_no, line_no, line, char)
line_of_error(bytes, char_no) ==
    LET text == UniversalNewlines(bytes)
        upto == ReadChars(text, 0, char_no)
        line == AfterLast(upto, LF)
    IN  [char_no |-> Len(line) + 1,
         line_no |-> Count(upto, LF) + 1,
         line    |-> line,
         char    |-> ReadChars(text, Len(upto), 1)]

\* re.search(r'.*in position (\d+):.*', stderr): the set of indexes at which
\* 'in position <digits>:' stands in stderr.
PositionMatches(stderr) ==
    {i \in 1..Len(stderr) :
        /\ StartsWithAt(stderr, i, IN_POSITION)
        /\ DigitRun(stderr, i + Len(IN_POSITION)) >= 1
        /\ LET e == i + Len(IN_POSITION) + DigitRun(stderr, i + Len(IN_POSITION))
           IN  e <= Len(stderr) /\ stderr[e] = ":"}

\* The line (counted from 0) of stderr that index i lies on.
LineOf(stderr, i) == Count(SubSeq(stderr, 1, i - 1), LF)

\* The match re.search returns: '.' does not match a newline, so the match
\* lies in the first line that holds one, and the greedy '.*' leaves the
\* last one of that line.  None when nothing matches; Some(group 1) otherwise.
SearchPosition(stderr) ==
    LET all == PositionMatches(stderr)
    IN  IF all = {} THEN None
        ELSE LET first == CHOOSE i \in all : \A j \in all : LineOf(stderr, i) <= LineOf(stderr, j)
                 inLine == {i \in all : LineOf(stderr, i) = LineOf(stderr, first)}
                 last == CHOOSE i \in inLine : \A j \in inLine : j <= i
                 d == last + Len(IN_POSITION)
             IN  Some(SubSeq(stderr, d, d + DigitRun(stderr, d) - 1))

\* get_unicode_message(stderr, filename): the message, or the fault that
\* m.group(1) raises when the search found nothing (m is None).
get_unicode_message(stderr, bytes) ==
    LET m == SearchPosition(stderr)
    IN  IF m = None
        THEN [fault |-> "AttributeError", message |-> << >>]
        ELSE LET loc == line_of_error(bytes, ParseInt(Get(m)))
             IN  [fault |-> "none",
                  message |-> <<"E", "R", "R", "O", "R", ":", " ", "U", "n", "r", "e", "a", "d", "a", "b", "l", "e", " ", "c", "h", "a", "r", "a", "c", "t", "e", "r", " ", "\"">> \o loc.char
                              \o <<"\"", " ", "a", "t", " ", "p", "o", "s", "i", "t", "i", "o", "n", " ">> \o IntToStr(loc.char_no)
                              \o <<" ", "o", "n", " ", "l", "i", "n", "e", ":", " ">> \o IntToStr(loc.line_no)
                              \o <<"\n", "S", "t", "a", "r", "t", "i", "n", "g", ":", " ">> \o loc.line \o <<"\n", "\n">>]

\* re.match(r'\d+ error\(s\) found in file', log) is not None, for a str log
MatchErrorCount(text) ==
    LET n == DigitRun(text, 1)
    IN  n >= 1 /\ StartsWithAt(text, n + 1, ERRORS_FOUND)

\* log_is_valid(log)
log_is_valid(text) == Contains(text, ALL_CHECKS_PASSED)

\* ------------------------------------------------------------------ paths

\* Path.suffix of a file name: from the last dot on, unless that dot is the
\* first or the last character of the name.
Suffix(name) ==
    LET i == RFind(name, ".")
    IN  IF 2 <= i /\ i < Len(name) THEN SubSeq(name, i, Len(name)) ELSE << >>

\* Path.stem of a file name
Stem(name) ==
    LET i == RFind(name, ".")
    IN  IF 2 <= i /\ i < Len(name) THEN SubSeq(name, 1, i - 1) ELSE name

\* Variant: the extension kept instead of swapped.
MutNewExtensionSame(name) == IF Suffix(name) = EXT_XLSX THEN EXT_XLSX ELSE EXT_AGS

\* new_extension = '.ags' if filename.suffix == '.xlsx' else '.xlsx'
new_extension(name) == IF Suffix(name) = EXT_XLSX THEN EXT_AGS ELSE EXT_XLSX

\* converted_file = results_dir / (filename.stem + new_extension)
ConvertedFile(dir, name) == << dir, Stem(name) \o new_extension(name) >>

\* Variant: the file is not deleted.
MutUnlinkKeeps(fs, path) == fs

\* converted_file.unlink(missing_ok=True): no fault when the file is absent
Unlink(fs, path) == fs \ {path}

\* ------------------------------------------------------------ classifiers

\* Variant: the last branch wraps the log in the template too.
MutClassifyAlwaysTemplate(res, lg, bytes) ==
    IF res.returncode # 0
    THEN IF Contains(res.stderr, UNICODE_MARKER)
         THEN LET g == get_unicode_message(res.stderr, bytes)
              IN  [fault |-> g.fault, use_template |-> TRUE, message |-> g.message]
         ELSE [fault |-> "none", use_template |-> TRUE,
               message |-> ERROR_PREFIX \o res.stderr]
    ELSE IF StartsWith(res.stdout, ERROR_PREFIX)
         THEN [fault |-> "none", use_template |-> TRUE, message |-> res.stdout]
    ELSE IF lg = None
         THEN [fault |-> "TypeError", use_template |-> FALSE, message |-> << >>]
    ELSE [fault |-> "none", use_template |-> TRUE, message |-> Get(lg)]

\* validate, lines 43-58: the branch taken for a completed tool run.
\* fault is the exception raised while classifying, "none" when there is none.
ClassifyValidate(res, lg, bytes) ==
    IF res.returncode # 0
    THEN IF Contains(res.stderr, UNICODE_MARKER)
         THEN LET g == get_unicode_message(res.stderr, bytes)
              IN  [fault |-> g.fault, use_template |-> TRUE, message |-> g.message]
         ELSE [fault |-> "none", use_template |-> TRUE,
               message |-> ERROR_PREFIX \o res.stderr]
    ELSE IF StartsWith(res.stdout, ERROR_PREFIX)
         THEN [fault |-> "none", use_template |-> TRUE, message |-> res.stdout]
    \* re.match(pattern, None) raises TypeError
    ELSE IF lg = None
         THEN [fault |-> "TypeError", use_template |-> FALSE, message |-> << >>]
    ELSE IF MatchErrorCount(Get(lg))
         THEN [fault |-> "none", use_template |-> TRUE, message |-> Get(lg)]
    ELSE [fault |-> "none", use_template |-> FALSE, message |-> << >>]

\* convert, lines 92-101: whether the run counts as failed, and the message.
ClassifyConvert(res, name, path) ==
    IF res.returncode # 0
    THEN [error |-> TRUE, message |-> ERROR_PREFIX \o res.stderr]
    ELSE IF StartsWith(res.stdout, ERROR_PREFIX)
         THEN [error |-> TRUE, message |-> res.stdout]
    ELSE [error |-> FALSE,
          message |-> SUCCESS_PREFIX \o name \o CONVERTED_TO \o path[2]]

\* Variant: the wait never runs out.
MutTimedOutNever(seconds) == FALSE

\* subprocess.run(..., timeout=30) raises TimeoutExpired when the tool has
\* not finished after TIMEOUT seconds.
TimedOut(seconds) == seconds > TIMEOUT

\* ----------------------------------------------------------------- inputs

Req == 1..NReq
Dirs == 1..NDirs

\* How long a tool run may take: within the wait, and beyond it.
Durations == {TIMEOUT - 1, TIMEOUT + 1}

\* Readings of the clock, rendered by strftime as year-month-day hour:minute:second
ClockReadings == {<<"2", "0", "2", "1", "-", "0", "8", "-", "1", "8", " ", "0", "9", ":", "2", "3", ":", "2", "9">>, <<"2", "0", "2", "1", "-", "0", "8", "-", "1", "8", " ", "0", "9", ":", "2", "3", ":", "3", "0">>}

\* Input file names: an AGS file, a spreadsheet, a name that is all suffix.
FileNames == {<<"a", ".", "a", "g", "s">>, <<"a", ".", "x", "l", "s", "x">>, <<".", "a", "g", "s">>}

\* Input file contents; "@" stands for a byte that UTF-8 cannot decode.
FileContents == {<< >>, <<"a", "\n", "b", "@">>, <<"a", "\r", "\n", "@", "b">>}

\* What the checking tool may print and write.
CheckStdouts == {<< >>, <<"E", "R", "R", "O", "R", ":", " ", "x">>, <<"E", "R", "R", "O", "R", ":", "x">>, <<"E", "R", "R", "O", "R", ":", " ", "A", "l", "l", " ", "c", "h", "e", "c", "k", "s", " ", "p", "a", "s", "s", "e", "d", "!">>}
CheckStderrs ==
    {<< >>, <<"x">>, <<"A", "l", "l", " ", "c", "h", "e", "c", "k", "s", " ", "p", "a", "s", "s", "e", "d", "!">>,
     <<"U", "n", "i", "c", "o", "d", "e", "D", "e", "c", "o", "d", "e", "E", "r", "r", "o", "r", ":", " ", "x">>,
     <<"U", "n", "i", "c", "o", "d", "e", "D", "e", "c", "o", "d", "e", "E", "r", "r", "o", "r", ":", " ", "i", "n", " ", "p", "o", "s", "i", "t", "i", "o", "n", " ", "1", "-", "2", ":", " ", "x">>,
     <<"U", "n", "i", "c", "o", "d", "e", "D", "e", "c", "o", "d", "e", "E", "r", "r", "o", "r", ":", " ", "i", "n", " ", "p", "o", "s", "i", "t", "i", "o", "n", " ", "3", ":", " ", "x">>,
     <<"U", "n", "i", "c", "o", "d", "e", "D", "e", "c", "o", "d", "e", "E", "r", "r", "o", "r", ":", " ", "i", "n", " ", "p", "o", "s", "i", "t", "i", "o", "n", " ", "1", ":", " ", "i", "n", " ", "p", "o", "s", "i", "t", "i", "o", "n", " ", "2", ":", " ", "x">>,
     <<"i", "n", " ", "p", "o", "s", "i", "t", "i", "o", "n", " ", "0", ":", " ", "x", "\n", "U", "n", "i", "c", "o", "d", "e", "D", "e", "c", "o", "d", "e", "E", "r", "r", "o", "r", ":", " ", "i", "n", " ", "p", "o", "s", "i", "t", "i", "o", "n", " ", "1", ":", " ", "x">>}
CheckLogs ==
    {None, Some(<< >>), Some(<<"A", "l", "l", " ", "c", "h", "e", "c", "k", "s", " ", "p", "a", "s", "s", "e", "d", "!">>),
     Some(<<"1", " ", "e", "r", "r", "o", "r", "(", "s", ")", " ", "f", "o", "u", "n", "d", " ", "i", "n", " ", "f", "i", "l", "e", "!">>),
     Some(<<"1", "2", " ", "e", "r", "r", "o", "r", "(", "s", ")", " ", "f", "o", "u", "n", "d", " ", "i", "n", " ", "f", "i", "l", "e", "!", " ", "A", "l", "l", " ", "c", "h", "e", "c", "k", "s", " ", "p", "a", "s", "s", "e", "d", "!">>),
     Some(<<"x", "1", " ", "e", "r", "r", "o", "r", "(", "s", ")", " ", "f", "o", "u", "n", "d", " ", "i", "n", " ", "f", "i", "l", "e">>),
     Some(<<"1", " ", "e", "r", "r", "o", "r", "s", " ", "f", "o", "u", "n", "d", " ", "i", "n", " ", "f", "i", "l", "e">>)}

CheckOutcomes ==
    [returncode : {0, 1}, stdout : CheckStdouts, stderr : CheckStderrs, log : CheckLogs]

\* What the conversion tool may print, and whether it wrote (part of) the
\* converted file.
ConvertOutcomes ==
    [returncode : {0, 1}, stdout : {<< >>, <<"E", "R", "R", "O", "R", ":", " ", "x">>, <<"E", "R", "R", "O", "R", ":", "x">>},
     stderr : {<< >>, <<"x">>}, wrote : BOOLEAN]

\* The inputs of the sequential specifications.
Inputs ==
    [names |-> FileNames, contents |-> FileContents, clocks |-> ClockReadings,
     check |-> CheckOutcomes, convert |-> ConvertOutcomes]

\* The inputs of the sequential convert specification: the content of the
\* input file reaches convert through its size alone.
ConvertInputs == [Inputs EXCEPT !.contents = {<<"a", "\n", "b", "@">>}]

\* A smaller choice of inputs for the concurrent specification, in which
\* the states of the requests multiply.
FewInputs ==
    [names |-> {<<"a", ".", "a", "g", "s">>, <<"a", ".", "x", "l", "s", "x">>}, contents |-> {<<"a", "\n", "b", "@">>},
     clocks |-> {<<"2", "0", "2", "1", "-", "0", "8", "-", "1", "8", " ", "0", "9", ":", "2", "3", ":", "2", "9">>},
     check |-> [returncode : {0, 1}, stdout : {<< >>, <<"E", "R", "R", "O", "R", ":", " ", "x">>}, stderr : {<<"x">>},
                log : {None, Some(<<"A", "l", "l", " ", "c", "h", "e", "c", "k", "s", " ", "p", "a", "s", "s", "e", "d", "!">>)}],
     convert |-> [returncode : {0, 1}, stdout : {<< >>, <<"E", "R", "R", "O", "R", ":", " ", "x">>},
                  stderr : {<<"x">>}, wrote : BOOLEAN]]

\* The input files the locator specification enumerates: every sequence of
\* at most MaxFileLen bytes over a letter, LF, CR and an undecodable byte.
Bytes == {"a", LF, CR, "@"}
LocatorFiles == UNION {[1..n -> Bytes] : n \in 1..MaxFileLen}

\* ------------------------------------------------------------------ state

VARIABLES
    pc,              \* where each request stands
    op,              \* the operation requested: validate, is_valid or convert
    filename,        \* filename.name of the request
    content,         \* the bytes of the input file
    results_dir,     \* convert: the results directory, 0 when there is none
    elapsed,         \* how long the external tool ran, 0 before it ran
    wrote,           \* convert: whether the tool wrote the converted file
    result,          \* the CompletedProcess of subprocess.run, None before
    log,             \* validate: the text of output.log, None when absent
    use_template,    \* validate: the local use_template
    message,         \* the local message
    time_utc,        \* the local time_utc
    converted_file,  \* convert: the local converted_file, an Optional path
    response,        \* the report returned: validate's response, convert's log
    valid,           \* is_valid: the value returned
    fault,           \* the exception raised to the caller, "none" if none
    dirs,            \* file system: the results directories that exist
    files,           \* file system: the converted files that exist
    loc_bytes,       \* locator: the input file
    loc_k,           \* locator: the offset
    loc_out          \* locator: line_of_error's result

argVars == << op, filename, content, results_dir >>
toolVars == << elapsed, wrote, result, log >>
localVars == << use_template, message, time_utc >>
outVars == << converted_file, response, valid, fault >>
fsVars == << dirs, files >>
locVars == << loc_bytes, loc_k, loc_out >>
vars == << pc, argVars, toolVars, localVars, outVars, fsVars, locVars >>

Ended == {"returned", "raised"}

Blank ==
    /\ pc = [r \in Req |-> "idle"]
    /\ op = [r \in Req |-> "none"]
    /\ filename = [r \in Req |-> << >>]
    /\ content = [r \in Req |-> << >>]
    /\ results_dir = [r \in Req |-> 0]
    /\ elapsed = [r \in Req |-> 0]
    /\ wrote = [r \in Req |-> FALSE]
    /\ result = [r \in Req |-> None]
    /\ log = [r \in Req |-> None]
    /\ use_template = [r \in Req |-> FALSE]
    /\ message = [r \in Req |-> << >>]
    /\ time_utc = [r \in Req |-> << >>]
    /\ converted_file = [r \in Req |-> None]
    /\ response = [r \in Req |-> None]
    /\ valid = [r \in Req |-> None]
    /\ fault = [r \in Req |-> "none"]
    /\ dirs = {}
    /\ files = {}

\* No request is running, no results directory exists yet.
Init ==
    /\ Blank
    /\ loc_bytes = << >>
    /\ loc_k = 0
    /\ loc_out = None

\* --------------------------------------------------------------- validate

\* validate(filename) is called: lines 22-30.  The TemporaryDirectory is
\* the request's own, so its output.log is the request's own too.
CallValidate(r, inp) ==
    /\ pc[r] = "idle"
    /\ \E n \in inp.names, c \in inp.contents :
        /\ filename' = [filename EXCEPT ![r] = n]
        /\ content' = [content EXCEPT ![r] = c]
    /\ op' = [op EXCEPT ![r] = "validate"]
    /\ pc' = [pc EXCEPT ![r] = "v_run"]
    /\ UNCHANGED << results_dir, toolVars, localVars, outVars, fsVars, locVars >>

\* is_valid(filename) is called: line 115 calls validate.
CallIsValid(r, inp) ==
    /\ pc[r] = "idle"
    /\ \E n \in inp.names, c \in inp.contents :
        /\ filename' = [filename EXCEPT ![r] = n]
        /\ content' = [content EXCEPT ![r] = c]
    /\ op' = [op EXCEPT ![r] = "is_valid"]
    /\ pc' = [pc EXCEPT ![r] = "v_run"]
    /\ UNCHANGED << results_dir, toolVars, localVars, outVars, fsVars, locVars >>

\* Lines 35-38: the checking tool runs; on a timeout subprocess.run raises
\* and the with-block removes the directory; otherwise the log is read, if
\* the tool wrote one, before the directory is removed.
RunCheckTool(r, inp) ==
    /\ pc[r] = "v_run"
    /\ \E d \in Durations, o \in inp.check :
        /\ elapsed' = [elapsed EXCEPT ![r] = d]
        /\ IF TimedOut(d)
           THEN /\ fault' = [fault EXCEPT ![r] = "TimeoutExpired"]
                /\ pc' = [pc EXCEPT ![r] = "raised"]
                /\ UNCHANGED << result, log >>
           ELSE /\ result' = [result EXCEPT ![r] =
                        Some([returncode |-> o.returncode, stdout |-> o.stdout,
                              stderr |-> o.stderr])]
                /\ log' = [log EXCEPT ![r] = o.log]
                /\ pc' = [pc EXCEPT ![r] = "v_classify"]
                /\ UNCHANGED fault
    /\ UNCHANGED << argVars, wrote, localVars, converted_file, response, valid,
                    fsVars, locVars >>

\* Lines 41-68 (and 115-122 for is_valid): the outcome is classified and the
\* response built, or classifying raises.
ValidateRespond(r, inp) ==
    /\ pc[r] = "v_classify"
    /\ LET c == ClassifyValidate(Get(result[r]), log[r], content[r])
       IN  IF c.fault # "none"
           THEN /\ fault' = [fault EXCEPT ![r] = c.fault]
                /\ pc' = [pc EXCEPT ![r] = "raised"]
                /\ UNCHANGED << localVars, response, valid >>
           ELSE \E t \in inp.clocks :
                LET text == IF c.use_template
                            THEN RESPONSE_TEMPLATE(filename[r], Len(content[r]), t, c.message)
                            ELSE Get(log[r])
                IN  /\ time_utc' = [time_utc EXCEPT ![r] = t]
                    /\ use_template' = [use_template EXCEPT ![r] = c.use_template]
                    /\ message' = [message EXCEPT ![r] = c.message]
                    /\ response' = [response EXCEPT ![r] = Some(text)]
                    /\ valid' = [valid EXCEPT ![r] =
                            IF op[r] = "is_valid" THEN Some(log_is_valid(text)) ELSE None]
                    /\ pc' = [pc EXCEPT ![r] = "returned"]
                    /\ UNCHANGED fault
    /\ UNCHANGED << argVars, toolVars, converted_file, fsVars, locVars >>

\* ---------------------------------------------------------------- convert

\* convert(filename, results_dir) is called: lines 75-77.
CallConvert(r, inp) ==
    /\ pc[r] = "idle"
    /\ \E n \in inp.names, c \in inp.contents, d \in Dirs :
        /\ filename' = [filename EXCEPT ![r] = n]
        /\ content' = [content EXCEPT ![r] = c]
        /\ results_dir' = [results_dir EXCEPT ![r] = d]
        /\ converted_file' = [converted_file EXCEPT ![r] = Some(ConvertedFile(d, n))]
    /\ op' = [op EXCEPT ![r] = "convert"]
    /\ pc' = [pc EXCEPT ![r] = "c_exists"]
    /\ UNCHANGED << toolVars, localVars, response, valid, fault, fsVars, locVars >>

\* Line 78: if not results_dir.exists()
CheckResultsDir(r) ==
    /\ pc[r] = "c_exists"
    /\ pc' = [pc EXCEPT ![r] = IF results_dir[r] \in dirs THEN "c_run" ELSE "c_mkdir"]
    /\ UNCHANGED << argVars, toolVars, localVars, outVars, fsVars, locVars >>

\* Line 79: results_dir.mkdir(), which raises FileExistsError when the
\* directory exists by now.
MakeResultsDir(r) ==
    /\ pc[r] = "c_mkdir"
    /\ IF results_dir[r] \in dirs
       THEN /\ fault' = [fault EXCEPT ![r] = "FileExistsError"]
            /\ pc' = [pc EXCEPT ![r] = "raised"]
            /\ UNCHANGED dirs
       ELSE /\ dirs' = dirs \cup {results_dir[r]}
            /\ pc' = [pc EXCEPT ![r] = "c_run"]
            /\ UNCHANGED fault
    /\ UNCHANGED << argVars, toolVars, localVars, converted_file, response, valid,
                    files, locVars >>

\* Lines 86-87: the conversion tool runs and may write the converted file,
\* whether it then succeeds, fails or is stopped at the timeout.
RunConvertTool(r, inp) ==
    /\ pc[r] = "c_run"
    /\ \E d \in Durations, o \in inp.convert :
        /\ elapsed' = [elapsed EXCEPT ![r] = d]
        /\ wrote' = [wrote EXCEPT ![r] = o.wrote]
        /\ files' = IF o.wrote THEN files \cup {Get(converted_file[r])} ELSE files
        /\ IF TimedOut(d)
           THEN /\ fault' = [fault EXCEPT ![r] = "TimeoutExpired"]
                /\ pc' = [pc EXCEPT ![r] = "raised"]
                /\ UNCHANGED result
           ELSE /\ result' = [result EXCEPT ![r] =
                        Some([returncode |-> o.returncode, stdout |-> o.stdout,
                              stderr |-> o.stderr])]
                /\ pc' = [pc EXCEPT ![r] = "c_classify"]
                /\ UNCHANGED fault
    /\ UNCHANGED << argVars, log, localVars, converted_file, response, valid,
                    dirs, locVars >>

\* Lines 90-108: the outcome is classified; a failed run's converted file is
\* deleted and no path is returned; the log is the template filled in.
ConvertRespond(r, inp) ==
    /\ pc[r] = "c_classify"
    /\ \E t \in inp.clocks :
        LET path == Get(converted_file[r])
            c == ClassifyConvert(Get(result[r]), filename[r], path)
        IN  /\ time_utc' = [time_utc EXCEPT ![r] = t]
            /\ message' = [message EXCEPT ![r] = c.message]
            /\ files' = IF c.error THEN Unlink(files, path) ELSE files
            /\ converted_file' = [converted_file EXCEPT ![r] =
                    IF c.error THEN None ELSE Some(path)]
            /\ response' = [response EXCEPT ![r] =
                    Some(RESPONSE_TEMPLATE(filename[r], Len(content[r]), t, c.message))]
    /\ pc' = [pc EXCEPT ![r] = "returned"]
    /\ UNCHANGED << argVars, toolVars, use_template, valid, fault, dirs, locVars >>

\* The caller has taken the result or the exception; the slot is free for
\* the next request.  The file system keeps what the request left.
Finish(r) ==
    /\ pc[r] \in Ended
    /\ pc' = [pc EXCEPT ![r] = "idle"]
    /\ op' = [op EXCEPT ![r] = "none"]
    /\ filename' = [filename EXCEPT ![r] = << >>]
    /\ content' = [content EXCEPT ![r] = << >>]
    /\ results_dir' = [results_dir EXCEPT ![r] = 0]
    /\ elapsed' = [elapsed EXCEPT ![r] = 0]
    /\ wrote' = [wrote EXCEPT ![r] = FALSE]
    /\ result' = [result EXCEPT ![r] = None]
    /\ log' = [log EXCEPT ![r] = None]
    /\ use_template' = [use_template EXCEPT ![r] = FALSE]
    /\ message' = [message EXCEPT ![r] = << >>]
    /\ time_utc' = [time_utc EXCEPT ![r] = << >>]
    /\ converted_file' = [converted_file EXCEPT ![r] = None]
    /\ response' = [response EXCEPT ![r] = None]
    /\ valid' = [valid EXCEPT ![r] = None]
    /\ fault' = [fault EXCEPT ![r] = "none"]
    /\ UNCHANGED << fsVars, locVars >>

\* ---------------------------------------------------------------- locator

\* line_of_error(filename, char_no) is applied to the file and the offset.
Locate ==
    /\ loc_out = None
    /\ loc_out' = Some(line_of_error(loc_bytes, loc_k))
    /\ UNCHANGED << pc, argVars, toolVars, localVars, outVars, fsVars, loc_bytes, loc_k >>

\* --------------------------------------------------------- specifications

\* No other request is in flight.
Alone(r) == \A q \in Req \ {r} : pc[q] = "idle"

\* No request of the batch has ended yet: a request that starts now runs
\* while every other request of the batch is still running.
NoneEnded == \A q \in Req : pc[q] \notin Ended

\* Requests for validate and is_valid, one after the other.
Next ==
    \E r \in Req :
        \/ Alone(r) /\ CallValidate(r, Inputs)
        \/ Alone(r) /\ CallIsValid(r, Inputs)
        \/ Alone(r) /\ RunCheckTool(r, Inputs)
        \/ Alone(r) /\ ValidateRespond(r, Inputs)
        \/ Alone(r) /\ Finish(r)

Spec == Init /\ [][Next]_vars

\* Requests for convert, one after the other.
ConvertNext ==
    \E r \in Req :
        \/ Alone(r) /\ CallConvert(r, ConvertInputs)
        \/ Alone(r) /\ CheckResultsDir(r)
        \/ Alone(r) /\ MakeResultsDir(r)
        \/ Alone(r) /\ RunConvertTool(r, ConvertInputs)
        \/ Alone(r) /\ ConvertRespond(r, ConvertInputs)
        \/ Alone(r) /\ Finish(r)

ConvertSpec == Init /\ [][ConvertNext]_vars

\* Requests for validate and convert, one after the other.
SeqNext ==
    \E r \in Req :
        \/ Alone(r) /\ CallValidate(r, FewInputs)
        \/ Alone(r) /\ RunCheckTool(r, FewInputs)
        \/ Alone(r) /\ ValidateRespond(r, FewInputs)
        \/ Alone(r) /\ CallConvert(r, FewInputs)
        \/ Alone(r) /\ CheckResultsDir(r)
        \/ Alone(r) /\ MakeResultsDir(r)
        \/ Alone(r) /\ RunConvertTool(r, FewInputs)
        \/ Alone(r) /\ ConvertRespond(r, FewInputs)
        \/ Alone(r) /\ Finish(r)

SeqSpec == Init /\ [][SeqNext]_vars

\* Requests for validate and convert running together, their steps
\* interleaved in any order.
ConcNext ==
    \E r \in Req :
        \/ NoneEnded /\ CallValidate(r, FewInputs)
        \/ RunCheckTool(r, FewInputs)
        \/ ValidateRespond(r, FewInputs)
        \/ NoneEnded /\ CallConvert(r, FewInputs)
        \/ CheckResultsDir(r)
        \/ MakeResultsDir(r)
        \/ RunConvertTool(r, FewInputs)
        \/ ConvertRespond(r, FewInputs)
        \/ Finish(r)

ConcSpec == Init /\ [][ConcNext]_vars

\* line_of_error applied to every file of LocatorFiles at every offset that
\* get_unicode_message can pass: the offset the strict decoder reported,
\* which is the offset of a byte it cannot decode.
LocatorInit ==
    /\ Blank
    /\ loc_bytes \in LocatorFiles
    /\ loc_k \in {k \in 0..(Len(loc_bytes) - 1) : loc_bytes[k + 1] = "@"}
    /\ loc_out = None

LocatorNext == Locate

LocatorSpec == LocatorInit /\ [][LocatorNext]_vars

\* ================================================================== claims

\* A request for validate, directly or through is_valid.
IsValidation(r) == op[r] \in {"validate", "is_valid"}

\* The tool of request r ran to its end and the request has ended.
Completed(r) == result[r] # None /\ pc[r] \in Ended

\* text starts with a digit sequence followed by " error(s) found in file".
BeginsWithErrorCount(text) ==
    \E n \in 1..Len(text) :
        /\ \A i \in 1..n : text[i] \in Digit
        /\ StartsWithAt(text, n + 1, ERRORS_FOUND)

\* The report the template gives request r for message msg.
TemplateReport(r, msg) ==
    Some(RESPONSE_TEMPLATE(filename[r], Len(content[r]), time_utc[r], msg))

\* C1: validate classifies every outcome of the checking tool by the first
\* condition that matches, in the order non-zero exit code, stdout beginning
\* with "ERROR: ", log starting with an error count, otherwise: a non-zero
\* exit code yields a template report whose message comes from stderr; exit
\* code 0 and an "ERROR: " stdout yield a template report with stdout as
\* message; else a log with an error count yields a template report with the
\* log as message; and every other outcome returns the log as it is.
C1_FirstMatchWins ==
    \A r \in Req :
        (IsValidation(r) /\ Completed(r)) =>
            LET res == Get(result[r])
            IN  /\ pc[r] = "returned"
                /\ IF res.returncode # 0
                   THEN /\ use_template[r]
                        /\ \/ message[r] = ERROR_PREFIX \o res.stderr
                           \/ /\ Contains(res.stderr, UNICODE_MARKER)
                              /\ StartsWith(message[r], <<"E", "R", "R", "O", "R", ":", " ", "U", "n", "r", "e", "a", "d", "a", "b", "l", "e", " ", "c", "h", "a", "r", "a", "c", "t", "e", "r", " ", "\"">>)
                        /\ response[r] = TemplateReport(r, message[r])
                   ELSE IF StartsWith(res.stdout, ERROR_PREFIX)
                   THEN /\ use_template[r]
                        /\ message[r] = res.stdout
                        /\ response[r] = TemplateReport(r, res.stdout)
                   ELSE IF log[r] # None /\ BeginsWithErrorCount(Get(log[r]))
                   THEN /\ use_template[r]
                        /\ message[r] = Get(log[r])
                        /\ response[r] = TemplateReport(r, Get(log[r]))
                   ELSE /\ ~use_template[r]
                        /\ log[r] # None
                        /\ response[r] = log[r]

\* C2: whatever the checking tool's exit code, stdout, stderr and log (the
\* log present or absent), validate ends by returning a report and never by
\* raising.
C2_AlwaysReturnsReport ==
    \A r \in Req :
        (IsValidation(r) /\ result[r] # None) => pc[r] # "raised"

C4_SuccessIsPassThrough ==
    \A r \in Req :
        (/\ IsValidation(r)
         /\ Completed(r)
         /\ Get(result[r]).returncode = 0
         /\ log[r] # None
         /\ Contains(Get(log[r]), ALL_CHECKS_PASSED)) =>
            /\ pc[r] = "returned"
            /\ ~use_template[r]
            /\ response[r] = log[r]
            /\ Contains(Get(response[r]), ALL_CHECKS_PASSED)

\* C4 as amended: after any run with exit code 0, a stdout that does not
\* begin with "ERROR: " and a log that contains "All checks passed!" and does
\* not start with an error count, log_is_valid holds of the returned
\* report, use_template is false and the report is the log unchanged.
C4_PassThroughWhenNothingElseMatches ==
    \A r \in Req :
        (/\ IsValidation(r)
         /\ Completed(r)
         /\ Get(result[r]).returncode = 0
         /\ ~StartsWith(Get(result[r]).stdout, ERROR_PREFIX)
         /\ log[r] # None
         /\ ~BeginsWithErrorCount(Get(log[r]))
         /\ Contains(Get(log[r]), ALL_CHECKS_PASSED)) =>
            /\ pc[r] = "returned"
            /\ ~use_template[r]
            /\ response[r] = log[r]
            /\ Contains(Get(response[r]), ALL_CHECKS_PASSED)

\* A validate request that returned the log of a successful run.
C4_Witness ==
    \E r \in Req :
        /\ op[r] = "validate"
        /\ pc[r] = "returned"
        /\ Get(result[r]).returncode = 0
        /\ ~StartsWith(Get(result[r]).stdout, ERROR_PREFIX)
        /\ log[r] = Some(ALL_CHECKS_PASSED)
        /\ response[r] = log[r]

\* C5 as stated: whenever the log starts with an error count, use_template
\* is true and the returned report contains the file name and the log.
C5_ErrorCountLogInReport ==
    \A r \in Req :
        (/\ IsValidation(r)
         /\ Completed(r)
         /\ log[r] # None
         /\ BeginsWithErrorCount(Get(log[r]))) =>
            /\ pc[r] = "returned"
            /\ use_template[r]
            /\ Contains(Get(response[r]), filename[r])
            /\ Contains(Get(response[r]), Get(log[r]))

\* C5 as amended: whenever the exit code is 0, stdout does not begin with
\* "ERROR: " and the log starts with an error count, use_template is true
\* and the returned report contains the file name and the log.
C5_ErrorCountLogInReportOnCleanExit ==
    \A r \in Req :
        (/\ IsValidation(r)
         /\ Completed(r)
         /\ Get(result[r]).returncode = 0
         /\ ~StartsWith(Get(result[r]).stdout, ERROR_PREFIX)
         /\ log[r] # None
         /\ BeginsWithErrorCount(Get(log[r]))) =>
            /\ pc[r] = "returned"
            /\ use_template[r]
            /\ Contains(Get(response[r]), filename[r])
            /\ Contains(Get(response[r]), Get(log[r]))

\* A validate request that returned a template report for a log with a
\* two-digit error count.
C5_Witness ==
    \E r \in Req :
        /\ op[r] = "validate"
        /\ pc[r] = "returned"
        /\ Get(result[r]).returncode = 0
        /\ ~StartsWith(Get(result[r]).stdout, ERROR_PREFIX)
        /\ log[r] # None
        /\ StartsWith(Get(log[r]), <<"1", "2", " ", "e", "r", "r", "o", "r", "(", "s", ")", " ", "f", "o", "u", "n", "d", " ", "i", "n", " ", "f", "i", "l", "e">>)
        /\ use_template[r]

\* The conversion tool of request r failed: non-zero exit code, or a stdout
\* beginning with "ERROR: ".
ConvertFailed(r) ==
    \/ Get(result[r]).returncode # 0
    \/ StartsWith(Get(result[r]).stdout, ERROR_PREFIX)

\* C6: when the conversion tool fails, convert returns (it does not raise,
\* also when there was no file to delete), returns no output path, and no
\* file is left at the converted-file location.
C6_FailedConvertLeavesNoFile ==
    \A r \in Req :
        (op[r] = "convert" /\ Completed(r) /\ ConvertFailed(r)) =>
            /\ pc[r] = "returned"
            /\ fault[r] = "none"
            /\ converted_file[r] = None
            /\ ConvertedFile(results_dir[r], filename[r]) \notin files

\* A failed convert whose tool had written the converted file, returned with
\* no file left at that location.
C6_Witness ==
    \E r \in Req :
        /\ op[r] = "convert"
        /\ pc[r] = "returned"
        /\ ConvertFailed(r)
        /\ wrote[r]
        /\ ConvertedFile(results_dir[r], filename[r]) \notin files

\* name is a non-empty stem followed by the extension ext.
HasExtension(name, ext) ==
    /\ Len(name) > Len(ext)
    /\ SubSeq(name, Len(name) - Len(ext) + 1, Len(name)) = ext

\* name without its last n characters
DropLast(name, n) == SubSeq(name, 1, Len(name) - n)

\* C7: when the conversion tool exits with code 0 and its stdout does not
\* begin with "ERROR: ", convert returns the path in results_dir of the input
\* stem with the opposite extension (.ags for .xlsx, .xlsx for .ags), and a
\* converted file the tool wrote is still there.
C7_SuccessReturnsOppositeExtension ==
    \A r \in Req :
        (op[r] = "convert" /\ Completed(r) /\ ~ConvertFailed(r)) =>
            /\ pc[r] = "returned"
            /\ converted_file[r] # None
            /\ LET path == Get(converted_file[r])
               IN  /\ path[1] = results_dir[r]
                   /\ HasExtension(filename[r], EXT_XLSX) =>
                        path[2] = DropLast(filename[r], Len(EXT_XLSX)) \o EXT_AGS
                   /\ HasExtension(filename[r], EXT_AGS) =>
                        path[2] = DropLast(filename[r], Len(EXT_AGS)) \o EXT_XLSX
                   /\ wrote[r] => path \in files

\* A successful convert of a spreadsheet whose tool wrote the AGS file.
C7_Witness ==
    \E r \in Req :
        /\ op[r] = "convert"
        /\ pc[r] = "returned"
        /\ ~ConvertFailed(r)
        /\ filename[r] = <<"a", ".", "x", "l", "s", "x">>
        /\ wrote[r]
        /\ converted_file[r] = Some(<< results_dir[r], <<"a", ".", "a", "g", "s">> >>)
        /\ Get(converted_file[r]) \in files

\* C8: requests that run together do not disturb each other: no request
\* raises because of another one (alone, mkdir follows a failed existence
\* check and cannot find the directory), and once all requests have ended,
\* a convert that returned the path of a file its tool wrote still has that
\* file.
C8_RequestsIndependent ==
    /\ \A r \in Req : fault[r] # "FileExistsError"
    /\ (\A q \in Req : pc[q] \in Ended \cup {"idle"}) =>
        \A r \in Req :
            (/\ op[r] = "convert"
             /\ pc[r] = "returned"
             /\ converted_file[r] # None
             /\ wrote[r]) => Get(converted_file[r]) \in files

\* C9: line_of_error(file, K) describes the first K bytes of the file: the
\* line number is 1 + the number of LF among them, the line prefix is what
\* follows the last LF among them, the column is its length + 1, and the
\* offending character is the byte at offset K.
C9_LocatesByteOffset ==
    loc_out # None =>
        LET first == SubSeq(loc_bytes, 1, loc_k)
            out == Get(loc_out)
        IN  /\ out.line_no = 1 + Count(first, LF)
            /\ out.line = AfterLast(first, LF)
            /\ out.char_no = Len(AfterLast(first, LF)) + 1
            /\ out.char = << loc_bytes[loc_k + 1] >>

\* C10: is_valid returns true only when validate took the pass-through
\* branch: exit code 0, stdout not beginning with "ERROR: ", log not starting
\* with an error count; no template report is classified as valid.
C10_ValidOnlyOnPassThrough ==
    \A r \in Req :
        (op[r] = "is_valid" /\ pc[r] = "returned" /\ valid[r] = Some(TRUE)) =>
            /\ Get(result[r]).returncode = 0
            /\ ~StartsWith(Get(result[r]).stdout, ERROR_PREFIX)
            /\ ~BeginsWithErrorCount(Get(log[r]))
            /\ ~use_template[r]

=============================================================================
